---------------------------- MODULE Spec2Model ----------------------------
(***************************************************************************)
(* Position / trade lifecycle engine of the Solana sniper bot (package     *)
(* models: Position, Trade and the User statistics they update).           *)
(*                                                                         *)
(* Numbers.  The Go fields are float64.  Prices, quantities, values, fees  *)
(* and PnL inputs are integers here; every value the code obtains by a     *)
(* division (average entry price, percentages, trailing stop price) is an  *)
(* exact rational <<numerator, denominator>> in lowest terms, so the model *)
(* is the code's arithmetic without float rounding.  Optional (pointer)    *)
(* fields are Nil == <<>> or Some(v) == <<v>>.                             *)
(*                                                                         *)
(* Payload fields that no method reads (timestamps of list entries, trade  *)
(* ids, hashes, reasons, notes, tags) are left out of the records.         *)
(***************************************************************************)
EXTENDS Integers, Sequences, FiniteSets, TLC

VARIABLES
    p,         \* the Position struct in memory
    posOp,     \* the last Position method called
    t,         \* the Trade struct in memory
    tradeRow,  \* the trades row last written by Create / Update (Nil before)
    tradeOp,   \* the last Trade operation, with its argument
    tok,       \* the Token struct in memory
    tokOp,     \* the last Token operation
    user,      \* the users row: aggregate statistics columns
    result,    \* the value the last query method returned (Nil before)
    calls,     \* the calls in progress, per concurrent caller
    now        \* the wall clock read by time.Now()

vars == <<p, posOp, t, tradeRow, tradeOp, tok, tokOp, user, result, calls, now>>

----------------------------------------------------------------------------
(* Bounds of the model *)

MaxExits == 2          \* partial exits recorded on one position
MaxDCA == 1            \* DCA entries recorded on one position
MaxAdjustments == 1    \* adjustment records on one position
MaxTime == 1           \* clock ticks
MaxStatTrades == 4     \* saves of a completed trade counted into users.total_trades
MaxStatVolume == 1500  \* cap on users.total_volume

----------------------------------------------------------------------------
(* Optional values and exact rationals *)

Nil == <<>>
Some(v) == <<v>>
IsNil(o) == o = <<>>
Val(o) == o[1]

Abs(x) == IF x < 0 THEN -x ELSE x

RECURSIVE GCD(_, _)
GCD(a, b) == IF b = 0 THEN a ELSE GCD(b, a % b)

\* n/d in lowest terms with a positive denominator (d # 0)
Rat(n, d) ==
    LET g == GCD(Abs(n), Abs(d))
        s == IF d < 0 THEN -1 ELSE 1
    IN  <<(s * n) \div g, (s * d) \div g>>

RInt(i) == <<i, 1>>
RAdd(a, b) == Rat(a[1] * b[2] + b[1] * a[2], a[2] * b[2])
RSub(a, b) == Rat(a[1] * b[2] - b[1] * a[2], a[2] * b[2])
RMul(a, b) == Rat(a[1] * b[1], a[2] * b[2])
RDiv(a, b) == Rat(a[1] * b[2], a[2] * b[1])
RLt(a, b) == a[1] * b[2] < b[1] * a[2]
RLe(a, b) == a[1] * b[2] <= b[1] * a[2]
RGt(a, b) == RLt(b, a)

RECURSIVE SumOver(_, _)
\* sum of field f over the records of sequence s (a range loop)
SumOver(s, f) == IF s = <<>> THEN 0 ELSE Head(s)[f] + SumOver(Tail(s), f)

----------------------------------------------------------------------------
(* Inputs *)

\* prices the feed reports (the entry price is 100)
Prices == {85, 110}

\* OpenPositionRequest: side, quantity > 0, price > 0, optional protective orders
OpenRequests ==
    [Side : {"long", "short"}, Quantity : {10}, Price : {100}, Fees : {2},
     StopLoss : {Nil}, TakeProfit : {Nil}, TrailingStop : {Nil, Some(10)}]

\* open requests that carry protective orders: a stop-loss and a take-profit on
\* either side of the entry price, and a trailing stop percentage
TriggerRequests ==
    [Side : {"long", "short"}, Quantity : {10}, Price : {100}, Fees : {2},
     StopLoss : {Nil, Some(90), Some(110)},
     TakeProfit : {Nil, Some(90), Some(110)},
     TrailingStop : {Nil, Some(10)}]

\* PartialExit values handed to AddPartialExit: 4 and 10 are in range on a fresh
\* position of 10, 10 exceeds what is left after an exit of 4, 0 is never in range
ExitInputs ==
    { [Quantity |-> 4,  Price |-> 110, Value |-> 440, Fees |-> 1, PnL |-> 40],
      [Quantity |-> 10, Price |-> 90,  Value |-> 900, Fees |-> 1, PnL |-> -100],
      [Quantity |-> 0,  Price |-> 110, Value |-> 0,   Fees |-> 1, PnL |-> 5] }

\* DCAEntry values handed to AddDCAEntry; the last two are out of range
DCAInputs ==
    { [Quantity |-> 5, Price |-> 80, Value |-> 400, Fees |-> 1],
      [Quantity |-> 0, Price |-> 80, Value |-> 0,   Fees |-> 1],
      [Quantity |-> 5, Price |-> 0,  Value |-> 0,   Fees |-> 1] }

\* PositionAdjustment values handed to AddAdjustment
\* (OldValue is what the caller wrote into the record: unset, or 10)
AdjustmentInputs ==
    { [Type |-> a[1], NewValue |-> a[2], OldValue |-> old] :
        a \in { <<"stop_loss", 90>>, <<"take_profit", 120>>,
                <<"trailing_stop", 20>>, <<"trailing_stop", 5>> },
        old \in {Nil, Some(10)} }

----------------------------------------------------------------------------
(* Position *)

\* Position.BeforeCreate on the struct the caller built from an open request
PositionBeforeCreate(r) ==
    [ Status |-> "open", Side |-> r.Side,
      EntryPrice |-> RInt(r.Price), EntryQuantity |-> r.Quantity,
      EntryValue |-> r.Price * r.Quantity, EntryFees |-> r.Fees,
      EntryTime |-> 0,
      CurrentPrice |-> r.Price, CurrentQuantity |-> r.Quantity,
      CurrentValue |-> r.Price * r.Quantity, LastPriceUpdate |-> 0,
      ExitPrice |-> Nil, ExitQuantity |-> Nil,
      ExitValue |-> Nil, ExitFees |-> Nil, ExitTime |-> Nil,
      StopLoss |-> r.StopLoss, TakeProfit |-> r.TakeProfit,
      TrailingStop |-> r.TrailingStop, TrailingStopPrice |-> Nil,
      UnrealizedPnL |-> RInt(0), UnrealizedPnLPercent |-> RInt(0),
      RealizedPnL |-> 0, RealizedPnLPercent |-> RInt(0),
      TotalFees |-> r.Fees, ROI |-> RInt(0),
      HighestValue |-> r.Price * r.Quantity, LowestValue |-> r.Price * r.Quantity,
      HighestPrice |-> r.Price, LowestPrice |-> r.Price,
      MaxDrawdown |-> RInt(0), MaxGainPercent |-> RInt(0),
      PartialExits |-> <<>>, Adjustments |-> <<>>, DCAEntries |-> <<>>,
      HoldDuration |-> 0 ]

\* Position.updatePerformanceMetrics, mutated: realized PnL leaves out the fees
updatePerformanceMetricsGross(q) ==
    IF q.Status = "open" THEN
        LET pnl == RMul(RSub(RInt(q.CurrentPrice), q.EntryPrice), RInt(q.CurrentQuantity))
        IN  [q EXCEPT
              !.UnrealizedPnL = pnl,
              !.UnrealizedPnLPercent =
                  IF q.EntryValue # 0
                  THEN RMul(RDiv(pnl, RInt(q.EntryValue)), RInt(100))
                  ELSE @,
              !.ROI =
                  IF q.EntryValue # 0
                  THEN Rat((q.CurrentValue - q.EntryValue - q.TotalFees) * 100, q.EntryValue)
                  ELSE @]
    ELSE IF q.Status = "closed" /\ ~IsNil(q.ExitValue) THEN
        LET realized == Val(q.ExitValue) - q.EntryValue
        IN  [q EXCEPT
              !.RealizedPnL = realized,
              !.RealizedPnLPercent =
                  IF q.EntryValue # 0 THEN Rat(realized * 100, q.EntryValue) ELSE @,
              !.ROI =
                  IF q.EntryValue # 0 THEN Rat(realized * 100, q.EntryValue) ELSE @]
    ELSE q

\* Position.updatePerformanceMetrics
updatePerformanceMetrics(q) ==
    IF q.Status = "open" THEN
        LET pnl == RMul(RSub(RInt(q.CurrentPrice), q.EntryPrice), RInt(q.CurrentQuantity))
        IN  [q EXCEPT
              !.UnrealizedPnL = pnl,
              !.UnrealizedPnLPercent =
                  IF q.EntryValue # 0
                  THEN RMul(RDiv(pnl, RInt(q.EntryValue)), RInt(100))
                  ELSE @,
              !.ROI =
                  IF q.EntryValue # 0
                  THEN Rat((q.CurrentValue - q.EntryValue - q.TotalFees) * 100, q.EntryValue)
                  ELSE @]
    ELSE IF q.Status = "closed" /\ ~IsNil(q.ExitValue) THEN
        LET realized == Val(q.ExitValue) - q.EntryValue - q.TotalFees
        IN  [q EXCEPT
              !.RealizedPnL = realized,
              !.RealizedPnLPercent =
                  IF q.EntryValue # 0 THEN Rat(realized * 100, q.EntryValue) ELSE @,
              !.ROI =
                  IF q.EntryValue # 0 THEN Rat(realized * 100, q.EntryValue) ELSE @]
    ELSE q

\* Position.updateTrackingValues, mutated: max_drawdown is overwritten with the
\* current drawdown instead of keeping the largest one seen
updateTrackingValuesCurrentDrawdown(q) ==
    LET hv == IF q.CurrentValue > q.HighestValue THEN q.CurrentValue ELSE q.HighestValue
        hp == IF q.CurrentPrice > q.HighestPrice THEN q.CurrentPrice ELSE q.HighestPrice
        lv == IF q.CurrentValue < q.LowestValue THEN q.CurrentValue ELSE q.LowestValue
        lp == IF q.CurrentPrice < q.LowestPrice THEN q.CurrentPrice ELSE q.LowestPrice
        drawdown == Rat((hv - q.CurrentValue) * 100, hv)
        maxGain == Rat((hv - q.EntryValue) * 100, q.EntryValue)
    IN  [q EXCEPT
          !.HighestValue = hv, !.HighestPrice = hp,
          !.LowestValue = lv, !.LowestPrice = lp,
          !.MaxDrawdown = IF hv > 0 THEN drawdown ELSE @,
          !.MaxGainPercent = IF q.EntryValue > 0 /\ RGt(maxGain, @) THEN maxGain ELSE @]

\* Position.updateTrackingValues
updateTrackingValues(q) ==
    LET hv == IF q.CurrentValue > q.HighestValue THEN q.CurrentValue ELSE q.HighestValue
        hp == IF q.CurrentPrice > q.HighestPrice THEN q.CurrentPrice ELSE q.HighestPrice
        lv == IF q.CurrentValue < q.LowestValue THEN q.CurrentValue ELSE q.LowestValue
        lp == IF q.CurrentPrice < q.LowestPrice THEN q.CurrentPrice ELSE q.LowestPrice
        drawdown == Rat((hv - q.CurrentValue) * 100, hv)
        maxGain == Rat((hv - q.EntryValue) * 100, q.EntryValue)
    IN  [q EXCEPT
          !.HighestValue = hv, !.HighestPrice = hp,
          !.LowestValue = lv, !.LowestPrice = lp,
          !.MaxDrawdown = IF hv > 0 /\ RGt(drawdown, @) THEN drawdown ELSE @,
          !.MaxGainPercent = IF q.EntryValue > 0 /\ RGt(maxGain, @) THEN maxGain ELSE @]

\* Position.calculateTotalFees
calculateTotalFees(q) ==
    [q EXCEPT !.TotalFees =
        q.EntryFees
        + (IF IsNil(q.ExitFees) THEN 0 ELSE Val(q.ExitFees))
        + SumOver(q.PartialExits, "Fees")
        + SumOver(q.DCAEntries, "Fees")]

\* Position.UpdateCurrentPrice, mutated: the tracking values are updated before the
\* new price is assigned
UpdateCurrentPriceStaleTracking(q, price, clk) ==
    updatePerformanceMetrics(
        [updateTrackingValues(q) EXCEPT !.CurrentPrice = price,
                                        !.CurrentValue = price * q.CurrentQuantity,
                                        !.LastPriceUpdate = clk])

\* Position.UpdateCurrentPrice(price) at clock reading clk
UpdateCurrentPriceOf(q, price, clk) ==
    updateTrackingValues(updatePerformanceMetrics(
        [q EXCEPT !.CurrentPrice = price,
                  !.CurrentValue = price * q.CurrentQuantity,
                  !.LastPriceUpdate = clk]))

\* Position.UpdateTrailingStop, mutated: the stop follows the price both ways
UpdateTrailingStopNoRatchet(q) ==
    IF IsNil(q.TrailingStop) \/ q.Status # "open" THEN q
    ELSE IF q.Side = "long"
         THEN [q EXCEPT !.TrailingStopPrice =
                  Some(Rat(q.CurrentPrice * (100 - Val(q.TrailingStop)), 100))]
         ELSE [q EXCEPT !.TrailingStopPrice =
                  Some(Rat(q.CurrentPrice * (100 + Val(q.TrailingStop)), 100))]

\* Position.UpdateTrailingStop
UpdateTrailingStopOf(q) ==
    IF IsNil(q.TrailingStop) \/ q.Status # "open" THEN q
    ELSE IF q.Side = "long" THEN
        LET newStopPrice == Rat(q.CurrentPrice * (100 - Val(q.TrailingStop)), 100)
        IN  IF IsNil(q.TrailingStopPrice) \/ RGt(newStopPrice, Val(q.TrailingStopPrice))
            THEN [q EXCEPT !.TrailingStopPrice = Some(newStopPrice)]
            ELSE q
    ELSE IF q.Side = "short" THEN
        LET newStopPrice == Rat(q.CurrentPrice * (100 + Val(q.TrailingStop)), 100)
        IN  IF IsNil(q.TrailingStopPrice) \/ RLt(newStopPrice, Val(q.TrailingStopPrice))
            THEN [q EXCEPT !.TrailingStopPrice = Some(newStopPrice)]
            ELSE q
    ELSE q

\* Position.AddPartialExit, mutated: the residual quantity is not tested
AddPartialExitNoClose(q, exit) ==
    [q EXCEPT !.PartialExits = Append(@, exit),
              !.CurrentQuantity = @ - exit.Quantity,
              !.CurrentValue = q.CurrentPrice * (q.CurrentQuantity - exit.Quantity),
              !.RealizedPnL = @ + exit.PnL,
              !.Status = "partial"]

\* Position.AddPartialExit(exit)
AddPartialExitOf(q, exit) ==
    LET exits == Append(q.PartialExits, exit)
        qty == q.CurrentQuantity - exit.Quantity
    IN  IF qty <= 0
        THEN [q EXCEPT !.PartialExits = exits,
                       !.RealizedPnL = @ + exit.PnL,
                       !.Status = "closed",
                       !.CurrentQuantity = 0,
                       !.CurrentValue = 0]
        ELSE [q EXCEPT !.PartialExits = exits,
                       !.CurrentQuantity = qty,
                       !.CurrentValue = q.CurrentPrice * qty,
                       !.RealizedPnL = @ + exit.PnL,
                       !.Status = IF Len(exits) > 0 THEN "partial" ELSE @]

\* Position.AddDCAEntry, mutated: the new price is the plain mean of the two prices
AddDCAEntryPlainMean(q, entry) ==
    [q EXCEPT !.DCAEntries = Append(@, entry),
              !.EntryPrice = RDiv(RAdd(@, RInt(entry.Price)), RInt(2)),
              !.EntryQuantity = @ + entry.Quantity,
              !.EntryValue = @ + entry.Value,
              !.CurrentQuantity = q.EntryQuantity + entry.Quantity,
              !.EntryFees = @ + entry.Fees]

\* Position.AddDCAEntry(entry); totalQuantity # 0 for every input enumerated
AddDCAEntryOf(q, entry) ==
    LET totalValue == q.EntryValue + entry.Value
        totalQuantity == q.EntryQuantity + entry.Quantity
    IN  [q EXCEPT !.DCAEntries = Append(@, entry),
                  !.EntryPrice = Rat(totalValue, totalQuantity),
                  !.EntryQuantity = totalQuantity,
                  !.EntryValue = totalValue,
                  !.CurrentQuantity = totalQuantity,
                  !.EntryFees = @ + entry.Fees]

\* Position.AddAdjustment(adjustment)
AddAdjustmentOf(q, adjustment) ==
    LET q1 == [q EXCEPT !.Adjustments = Append(@, adjustment)]
    IN  CASE adjustment.Type = "stop_loss" ->
               [q1 EXCEPT !.StopLoss = Some(adjustment.NewValue)]
          [] adjustment.Type = "take_profit" ->
               [q1 EXCEPT !.TakeProfit = Some(adjustment.NewValue)]
          [] adjustment.Type = "trailing_stop" ->
               [q1 EXCEPT !.TrailingStop = Some(adjustment.NewValue)]
          [] OTHER -> q1

\* Position.BeforeUpdate at clock reading clk
PositionBeforeUpdate(q, clk) ==
    LET q1 == [q EXCEPT !.HoldDuration =
                  IF q.Status = "open" THEN clk - q.EntryTime
                  ELSE IF ~IsNil(q.ExitTime) THEN Val(q.ExitTime) - q.EntryTime
                  ELSE @]
    IN  calculateTotalFees(updateTrackingValues(updatePerformanceMetrics(q1)))

\* close(exitPrice, reason) on the loaded position: the status and the exit fields
\* it stamps before the save
CloseOf(q, exitPrice, clk) ==
    [q EXCEPT !.Status = "closed",
              !.ExitPrice = Some(exitPrice),
              !.ExitQuantity = Some(q.CurrentQuantity),
              !.ExitValue = Some(exitPrice * q.CurrentQuantity),
              !.ExitTime = Some(clk)]

\* Position.updateUserStats: the UPDATE users SET ... statement
PositionUserStats(u, q) ==
    [u EXCEPT !.TotalVolume = @ + q.EntryValue,
              !.TotalProfit = IF q.RealizedPnL > 0 THEN @ + q.RealizedPnL ELSE @,
              !.TotalLoss = IF q.RealizedPnL < 0 THEN @ - q.RealizedPnL ELSE @]

\* Position.AfterUpdate
PositionAfterUpdate(u, q) ==
    IF q.Status = "closed" THEN PositionUserStats(u, q) ELSE u

\* Position.ShouldTriggerStopLoss, mutated: the long comparison for every side
ShouldTriggerStopLossAnySide(q) ==
    IF IsNil(q.StopLoss) \/ q.Status # "open" THEN FALSE
    ELSE q.CurrentPrice <= Val(q.StopLoss)

\* Position.ShouldTriggerStopLoss
ShouldTriggerStopLoss(q) ==
    IF IsNil(q.StopLoss) \/ q.Status # "open" THEN FALSE
    ELSE IF q.Side = "long" THEN q.CurrentPrice <= Val(q.StopLoss)
    ELSE IF q.Side = "short" THEN q.CurrentPrice >= Val(q.StopLoss)
    ELSE FALSE

\* Position.ShouldTriggerTakeProfit, mutated: the status is not tested
ShouldTriggerTakeProfitAnyStatus(q) ==
    IF IsNil(q.TakeProfit) THEN FALSE
    ELSE IF q.Side = "long" THEN q.CurrentPrice >= Val(q.TakeProfit)
    ELSE IF q.Side = "short" THEN q.CurrentPrice <= Val(q.TakeProfit)
    ELSE FALSE

\* Position.ShouldTriggerTakeProfit
ShouldTriggerTakeProfit(q) ==
    IF IsNil(q.TakeProfit) \/ q.Status # "open" THEN FALSE
    ELSE IF q.Side = "long" THEN q.CurrentPrice >= Val(q.TakeProfit)
    ELSE IF q.Side = "short" THEN q.CurrentPrice <= Val(q.TakeProfit)
    ELSE FALSE

\* Position.ShouldTriggerTrailingStop
ShouldTriggerTrailingStop(q) ==
    IF IsNil(q.TrailingStopPrice) \/ q.Status # "open" THEN FALSE
    ELSE IF q.Side = "long" THEN RLe(RInt(q.CurrentPrice), Val(q.TrailingStopPrice))
    ELSE IF q.Side = "short" THEN RLe(Val(q.TrailingStopPrice), RInt(q.CurrentPrice))
    ELSE FALSE

\* ProtectiveOrderEvaluator.shouldTrigger(position): evaluates the three checks and
\* resolves simultaneous triggers by priority, stop-loss (plain, then trailing)
\* before take-profit
shouldTrigger(q) ==
    IF ShouldTriggerStopLoss(q) THEN "stop_loss"
    ELSE IF ShouldTriggerTrailingStop(q) THEN "trailing_stop"
    ELSE IF ShouldTriggerTakeProfit(q) THEN "take_profit"
    ELSE "no_trigger"

----------------------------------------------------------------------------
(* Trade *)

TradeStatuses ==
    {"pending", "submitted", "executed", "confirmed", "failed", "cancelled",
     "partial", "expired"}

DefaultMaxRetries == 3

\* (trading fee, platform fee, gas fee) triples the caller assigns
FeeInputs == { <<1, 2, 3>>, <<2, 0, 1>> }

\* TradeRequest: side, fees, max_retries (0 = not given)
TradeRequests ==
    [Side : {"buy"}, Fees : {<<1, 2, 3>>}, MaxRetries : {0, 1}]

\* (executed amount, executed price) the caller assigns: none yet, or the fill
FillInputs == { <<0, 0>>, <<100, 11>> }

\* the Trade struct the caller builds from a request, before Create
NewTrade(r) ==
    [ Status |-> "pending", Side |-> r.Side,
      Price |-> 10, ExecutedPrice |-> 0, ExecutedAmount |-> 0,
      TradingFee |-> r.Fees[1], PlatformFee |-> r.Fees[2], GasFee |-> r.Fees[3],
      TotalFees |-> 0,
      RequestedAt |-> Nil, ExecutedAt |-> Nil, ConfirmedAt |-> Nil,
      ExecutionTime |-> 0, ConfirmationTime |-> 0,
      ProfitLoss |-> 0,
      RetryCount |-> 0, MaxRetries |-> r.MaxRetries ]

\* Trade.IsCompleted
IsCompleted(x) ==
    x.Status = "confirmed" \/ x.Status = "failed" \/ x.Status = "cancelled"
    \/ x.Status = "expired"

\* Trade.IsSuccessful
IsSuccessful(x) == x.Status = "confirmed" \/ x.Status = "executed"

\* Trade.CanRetry, mutated: off by one
CanRetryInclusive(x) == x.Status = "failed" /\ x.RetryCount <= x.MaxRetries

\* Trade.CanRetry
CanRetry(x) == x.Status = "failed" /\ x.RetryCount < x.MaxRetries

\* Trade.calculateProfitLoss: every branch returns without assigning
calculateProfitLoss(x) == x

\* Trade.BeforeCreate at clock reading clk
TradeBeforeCreate(x, clk) ==
    [x EXCEPT !.RequestedAt = IF IsNil(@) THEN Some(clk) ELSE @,
              !.TotalFees = x.TradingFee + x.PlatformFee + x.GasFee,
              !.MaxRetries = IF @ = 0 THEN DefaultMaxRetries ELSE @]

\* Trade.BeforeUpdate, mutated: the timestamps are stamped on every save in the
\* status, whether or not they are already set
TradeBeforeUpdateRestamp(x, clk) ==
    LET x1 == IF x.Status = "executed"
              THEN [x EXCEPT !.ExecutedAt = Some(clk),
                             !.ExecutionTime = clk - Val(x.RequestedAt)]
              ELSE x
        x2 == IF x1.Status = "confirmed"
              THEN [x1 EXCEPT !.ConfirmedAt = Some(clk),
                              !.ConfirmationTime =
                                  IF ~IsNil(x1.ExecutedAt)
                                  THEN clk - Val(x1.ExecutedAt) ELSE @]
              ELSE x1
        x3 == IF x2.Status = "confirmed" \/ x2.Status = "executed"
              THEN calculateProfitLoss(x2) ELSE x2
    IN  [x3 EXCEPT !.TotalFees = x3.TradingFee + x3.PlatformFee + x3.GasFee]

\* Trade.BeforeUpdate, mutated: total fees are not recalculated
TradeBeforeUpdateStaleFees(x, clk) ==
    LET x1 == IF x.Status = "executed" /\ IsNil(x.ExecutedAt)
              THEN [x EXCEPT !.ExecutedAt = Some(clk),
                             !.ExecutionTime = clk - Val(x.RequestedAt)]
              ELSE x
    IN  IF x1.Status = "confirmed" /\ IsNil(x1.ConfirmedAt)
        THEN [x1 EXCEPT !.ConfirmedAt = Some(clk),
                        !.ConfirmationTime =
                            IF ~IsNil(x1.ExecutedAt) THEN clk - Val(x1.ExecutedAt) ELSE @]
        ELSE x1

\* Trade.BeforeUpdate at clock reading clk
TradeBeforeUpdate(x, clk) ==
    LET x1 == IF x.Status = "executed" /\ IsNil(x.ExecutedAt)
              THEN [x EXCEPT !.ExecutedAt = Some(clk),
                             !.ExecutionTime = clk - Val(x.RequestedAt)]
              ELSE x
        x2 == IF x1.Status = "confirmed" /\ IsNil(x1.ConfirmedAt)
              THEN [x1 EXCEPT !.ConfirmedAt = Some(clk),
                              !.ConfirmationTime =
                                  IF ~IsNil(x1.ExecutedAt)
                                  THEN clk - Val(x1.ExecutedAt) ELSE @]
              ELSE x1
        x3 == IF x2.Status = "confirmed" \/ x2.Status = "executed"
              THEN calculateProfitLoss(x2) ELSE x2
    IN  [x3 EXCEPT !.TotalFees = x3.TradingFee + x3.PlatformFee + x3.GasFee]

\* the sides of a trade, and the requested and executed prices a trade can carry
\* (0: not set)
TradeSides == {"buy", "sell"}
RequestedPrices == {0, 10, 20}
ExecutedPrices == {0, 9, 10, 22}

\* Trade.CalculateActualSlippage, mutated: the sell side uses the buy formula
CalculateActualSlippageSameSign(x) ==
    IF x.Price = 0 \/ x.ExecutedPrice = 0 THEN RInt(0)
    ELSE RMul(Rat(x.ExecutedPrice - x.Price, x.Price), RInt(100))

\* Trade.CalculateActualSlippage
CalculateActualSlippage(x) ==
    IF x.Price = 0 \/ x.ExecutedPrice = 0 THEN RInt(0)
    ELSE IF x.Side = "buy"
    THEN RMul(Rat(x.ExecutedPrice - x.Price, x.Price), RInt(100))
    ELSE RMul(Rat(x.Price - x.ExecutedPrice, x.Price), RInt(100))

\* Trade.updateUserStats: the UPDATE users SET ... statement
TradeUserStats(u, x) ==
    IF ~IsCompleted(x) THEN u
    ELSE IF IsSuccessful(x) THEN
        [u EXCEPT !.TotalTrades = @ + 1,
                  !.SuccessfulTrades = @ + 1,
                  !.TotalVolume = @ + x.ExecutedAmount,
                  !.TotalProfit = IF x.ProfitLoss > 0 THEN @ + x.ProfitLoss ELSE @,
                  !.TotalLoss = IF x.ProfitLoss < 0 THEN @ - x.ProfitLoss ELSE @]
    ELSE [u EXCEPT !.TotalTrades = @ + 1]

----------------------------------------------------------------------------
(* Two callers on one *Position: the methods statement by statement.  The      *)
(* struct has no lock, so the statements of two calls interleave freely.       *)

\* the statements of UpdateCurrentPrice and of AddPartialExit, in order
LastStatement == 5

\* statement k of Position.UpdateCurrentPrice(price) at clock reading clk
UpdateCurrentPriceStatement(q, k, price, clk) ==
    CASE k = 1 -> [q EXCEPT !.CurrentPrice = price]
      [] k = 2 -> [q EXCEPT !.CurrentValue = price * q.CurrentQuantity]
      [] k = 3 -> [q EXCEPT !.LastPriceUpdate = clk]
      [] k = 4 -> updatePerformanceMetrics(q)
      [] k = 5 -> updateTrackingValues(q)

\* statement k of Position.AddPartialExit(exit)
AddPartialExitStatement(q, k, exit) ==
    CASE k = 1 -> [q EXCEPT !.PartialExits = Append(@, exit)]
      [] k = 2 -> [q EXCEPT !.CurrentQuantity = @ - exit.Quantity]
      [] k = 3 -> [q EXCEPT !.CurrentValue = q.CurrentPrice * q.CurrentQuantity]
      [] k = 4 -> [q EXCEPT !.RealizedPnL = @ + exit.PnL]
      [] k = 5 -> IF q.CurrentQuantity <= 0
                  THEN [q EXCEPT !.Status = "closed",
                                 !.CurrentQuantity = 0,
                                 !.CurrentValue = 0]
                  ELSE IF Len(q.PartialExits) > 0
                  THEN [q EXCEPT !.Status = "partial"]
                  ELSE q

\* statement k of the call c of a caller
CallStatement(q, c, k, clk) ==
    IF c.Op = "UpdateCurrentPrice"
    THEN UpdateCurrentPriceStatement(q, k, c.Arg, clk)
    ELSE AddPartialExitStatement(q, k, c.Arg)

\* the whole method of the call c of a caller, run alone
CallAlone(q, c, clk) ==
    IF c.Op = "UpdateCurrentPrice"
    THEN UpdateCurrentPriceOf(q, c.Arg, clk)
    ELSE AddPartialExitOf(q, c.Arg)

----------------------------------------------------------------------------
(* Concurrent completions on one users row *)

\* the entities whose save reaches updateUserStats: trades saved in a completed
\* status (and one that is only executed), positions saved closed
Completions ==
    { [Kind |-> "trade",
       Entity |-> [NewTrade([Side |-> "buy", Fees |-> <<1, 2, 3>>, MaxRetries |-> 3])
                     EXCEPT !.Status = s, !.ExecutedAmount = 100]] :
        s \in {"confirmed", "failed", "executed"} }
    \cup
    { [Kind |-> "position",
       Entity |-> [PositionBeforeCreate([Side |-> "long", Quantity |-> 10,
                                         Price |-> 100, Fees |-> 2,
                                         StopLoss |-> Nil, TakeProfit |-> Nil,
                                         TrailingStop |-> Nil])
                     EXCEPT !.Status = "closed", !.RealizedPnL = r]] :
        r \in {40, -100} }

\* what the AfterCreate / AfterUpdate hook of entity e adds to the users row u
HookStats(u, e) ==
    IF e.Kind = "trade" THEN TradeUserStats(u, e.Entity)
    ELSE PositionAfterUpdate(u, e.Entity)

\* the UPDATE users statement, mutated: the new values are computed from the row
\* as it was when the caller's save began (read, modify, write back)
StatsStatementFromSnapshot(current, seen, e) == HookStats(seen, e)

\* the UPDATE users SET col = col + ? statement of the hook of entity e: the
\* database evaluates the gorm.Expr increments on the current row
StatsStatement(current, seen, e) == HookStats(current, e)

----------------------------------------------------------------------------
(* Token: risk scoring.  RiskScore is in tenths (RiskScore 35 is 3.5): every   *)
(* term of the score is a multiple of 0.5, so the float64 sum is exact.        *)

AuditStatuses == {"not_audited", "pending", "passed", "failed", "partial"}

\* the RiskLevel constants, lowest band first
RiskLevels == <<"very_low", "low", "medium", "high", "very_high", "extreme">>

\* one clock tick is a day: time.Since(*t.LaunchDate) is compared with 24 hours
\* and with 7 * 24 hours
HoursPerTick == 24

\* the risk inputs of a token as the caller fills them in
TokenSnapshots ==
    [ HoneypotRisk : BOOLEAN, LiquidityLocked : BOOLEAN,
      OwnershipRenounced : BOOLEAN,
      MarketCap : {5000, 50000, 500000},
      VolatilityScore : {50, 70, 90},
      LaunchDate : {Nil, Some(0), Some(-6)},
      LiquidityPools : { <<>>, <<[TotalLiquidity |-> 5]>>,
                         <<[TotalLiquidity |-> 50]>>,
                         <<[TotalLiquidity |-> 60], [TotalLiquidity |-> 60]>> },
      HolderCount : {5, 50, 500},
      AuditStatus : AuditStatuses,
      SocialScore : {2, 5, 8} ]

\* the risk_score the caller hands to Create: not given (0), or a provider's 2.0
PresetRiskScores == {0, 20}

\* the risk inputs of token x
SnapshotOf(x) ==
    [ HoneypotRisk |-> x.HoneypotRisk, LiquidityLocked |-> x.LiquidityLocked,
      OwnershipRenounced |-> x.OwnershipRenounced, MarketCap |-> x.MarketCap,
      VolatilityScore |-> x.VolatilityScore, LaunchDate |-> x.LaunchDate,
      LiquidityPools |-> x.LiquidityPools, HolderCount |-> x.HolderCount,
      AuditStatus |-> x.AuditStatus, SocialScore |-> x.SocialScore ]

\* the Token struct the caller builds from snapshot s, before Create
NewToken(s) ==
    [ HoneypotRisk |-> s.HoneypotRisk, LiquidityLocked |-> s.LiquidityLocked,
      OwnershipRenounced |-> s.OwnershipRenounced, MarketCap |-> s.MarketCap,
      VolatilityScore |-> s.VolatilityScore, LaunchDate |-> s.LaunchDate,
      LiquidityPools |-> s.LiquidityPools, HolderCount |-> s.HolderCount,
      AuditStatus |-> s.AuditStatus, SocialScore |-> s.SocialScore,
      RiskScore |-> 0, RiskLevel |-> "",
      FirstSeenAt |-> Nil, LastSeenAt |-> Nil, ScanInterval |-> 0 ]

\* Token.getTotalLiquidity
getTotalLiquidity(x) == SumOver(x.LiquidityPools, "TotalLiquidity")

\* Token.calculateRiskScore at clock reading clk: the sum before the clamp
rawRiskScore(x, clk) ==
    LET ageHours == (clk - Val(x.LaunchDate)) * HoursPerTick
        totalLiquidity == getTotalLiquidity(x)
    IN  50
        + (IF x.HoneypotRisk THEN 30 ELSE 0)
        + (IF ~x.LiquidityLocked THEN 20 ELSE 0)
        + (IF ~x.OwnershipRenounced THEN 15 ELSE 0)
        + (IF x.MarketCap < 10000 THEN 20
           ELSE IF x.MarketCap < 100000 THEN 10 ELSE 0)
        + (IF x.VolatilityScore > 80 THEN 15
           ELSE IF x.VolatilityScore > 60 THEN 10 ELSE 0)
        + (IF IsNil(x.LaunchDate) THEN 0
           ELSE IF ageHours < 24 THEN 20
           ELSE IF ageHours < 7 * 24 THEN 10 ELSE 0)
        + (IF totalLiquidity < 1 THEN 30
           ELSE IF totalLiquidity < 10 THEN 20
           ELSE IF totalLiquidity < 100 THEN 10 ELSE 0)
        + (IF x.HolderCount < 10 THEN 20
           ELSE IF x.HolderCount < 100 THEN 10 ELSE 0)
        + (CASE x.AuditStatus = "passed" -> -10
             [] x.AuditStatus = "failed" -> 20
             [] x.AuditStatus = "not_audited" -> 5
             [] OTHER -> 0)
        + (IF x.SocialScore < 3 THEN 10
           ELSE IF x.SocialScore > 7 THEN -5 ELSE 0)

\* Token.calculateRiskScore, mutated: the sum is stored without the clamp
calculateRiskScoreUnclamped(x, clk) == [x EXCEPT !.RiskScore = rawRiskScore(x, clk)]

\* Token.calculateRiskScore at clock reading clk
calculateRiskScore(x, clk) ==
    LET score == rawRiskScore(x, clk)
    IN  [x EXCEPT !.RiskScore =
            IF score < 0 THEN 0 ELSE IF score > 100 THEN 100 ELSE score]

\* Token.updateRiskLevel, mutated: the two top bands are swapped
updateRiskLevelSwapped(x) ==
    [x EXCEPT !.RiskLevel =
        IF x.RiskScore <= 20 THEN "very_low"
        ELSE IF x.RiskScore <= 40 THEN "low"
        ELSE IF x.RiskScore <= 60 THEN "medium"
        ELSE IF x.RiskScore <= 80 THEN "high"
        ELSE IF x.RiskScore <= 90 THEN "extreme"
        ELSE "very_high"]

\* Token.updateRiskLevel
updateRiskLevel(x) ==
    [x EXCEPT !.RiskLevel =
        IF x.RiskScore <= 20 THEN "very_low"
        ELSE IF x.RiskScore <= 40 THEN "low"
        ELSE IF x.RiskScore <= 60 THEN "medium"
        ELSE IF x.RiskScore <= 80 THEN "high"
        ELSE IF x.RiskScore <= 90 THEN "very_high"
        ELSE "extreme"]

\* Token.BeforeCreate at clock reading clk
TokenBeforeCreate(x, clk) ==
    LET x1 == [x EXCEPT !.FirstSeenAt = IF IsNil(@) THEN Some(clk) ELSE @,
                        !.LastSeenAt = IF IsNil(@) THEN Some(clk) ELSE @,
                        !.ScanInterval = IF @ = 0 THEN 60 ELSE @]
    IN  IF x1.RiskScore = 0 THEN calculateRiskScore(x1, clk) ELSE x1

\* Token.BeforeUpdate at clock reading clk
TokenBeforeUpdate(x, clk) ==
    updateRiskLevel(calculateRiskScore([x EXCEPT !.LastSeenAt = Some(clk)], clk))

----------------------------------------------------------------------------
(* Initial states *)

UserInit ==
    [TotalTrades |-> 0, SuccessfulTrades |-> 0, TotalVolume |-> 0,
     TotalProfit |-> 0, TotalLoss |-> 0]

DefaultOpenRequest ==
    [Side |-> "long", Quantity |-> 10, Price |-> 100, Fees |-> 2,
     StopLoss |-> Nil, TakeProfit |-> Nil, TrailingStop |-> Nil]

DefaultTradeRequest == [Side |-> "buy", Fees |-> <<1, 2, 3>>, MaxRetries |-> 0]

DefaultTokenSnapshot ==
    [ HoneypotRisk |-> FALSE, LiquidityLocked |-> TRUE, OwnershipRenounced |-> TRUE,
      MarketCap |-> 500000, VolatilityScore |-> 50, LaunchDate |-> Nil,
      LiquidityPools |-> <<[TotalLiquidity |-> 50]>>, HolderCount |-> 500,
      AuditStatus |-> "passed", SocialScore |-> 5 ]

\* the token variables before any token operation
TokenIdle ==
    /\ tok = NewToken(DefaultTokenSnapshot)
    /\ tokOp = "none"

\* the concurrent callers of the model
Callers == {1, 2}

\* no call in progress
IdleCall == [Op |-> "idle", Step |-> 0, Arg |-> Nil, Seen |-> Nil]

\* no query answered yet, no call in progress
AuxIdle ==
    /\ result = Nil
    /\ calls = [c \in Callers |-> IdleCall]

\* the trade variables before any trade operation
TradeIdle ==
    /\ t = NewTrade(DefaultTradeRequest)
    /\ tradeRow = Nil
    /\ tradeOp = "none"

\* a position just created from an open request without a trailing stop
InitLedger ==
    /\ \E r \in OpenRequests : IsNil(r.TrailingStop) /\ p = PositionBeforeCreate(r)
    /\ posOp = "none"
    /\ TradeIdle
    /\ TokenIdle
    /\ user = UserInit
    /\ AuxIdle
    /\ now = 0

\* a position just created from an open request
InitPosition ==
    /\ \E r \in OpenRequests : p = PositionBeforeCreate(r)
    /\ posOp = "none"
    /\ TradeIdle
    /\ TokenIdle
    /\ user = UserInit
    /\ AuxIdle
    /\ now = 0

\* a position just created from an open request with protective orders
InitTriggers ==
    /\ \E r \in TriggerRequests : p = PositionBeforeCreate(r)
    /\ posOp = "none"
    /\ TradeIdle
    /\ TokenIdle
    /\ user = UserInit
    /\ AuxIdle
    /\ now = 0

\* a token built from a snapshot of its risk inputs, not yet created
InitToken ==
    /\ p = PositionBeforeCreate(DefaultOpenRequest)
    /\ posOp = "none"
    /\ TradeIdle
    /\ \E s \in TokenSnapshots, r \in PresetRiskScores :
           tok = [NewToken(s) EXCEPT !.RiskScore = r]
    /\ tokOp = "none"
    /\ user = UserInit
    /\ AuxIdle
    /\ now = 0

\* nothing created yet, default entities, no call in progress
InitIdle ==
    /\ p = PositionBeforeCreate(DefaultOpenRequest)
    /\ posOp = "none"
    /\ TradeIdle
    /\ TokenIdle
    /\ user = UserInit
    /\ AuxIdle
    /\ now = 0

\* a trade built from a request, not yet created
\* a trade of either side with a requested price, not yet filled
InitSlippage ==
    /\ p = PositionBeforeCreate(DefaultOpenRequest)
    /\ posOp = "none"
    /\ \E side \in TradeSides, price \in RequestedPrices :
           t = [NewTrade(DefaultTradeRequest) EXCEPT !.Side = side, !.Price = price]
    /\ tradeRow = Nil
    /\ tradeOp = "none"
    /\ TokenIdle
    /\ user = UserInit
    /\ AuxIdle
    /\ now = 0

InitTrade ==
    /\ p = PositionBeforeCreate(DefaultOpenRequest)
    /\ posOp = "none"
    /\ \E r \in TradeRequests : t = NewTrade(r)
    /\ tradeRow = Nil
    /\ tradeOp = "none"
    /\ TokenIdle
    /\ user = UserInit
    /\ AuxIdle
    /\ now = 0

Init ==
    /\ \E r \in OpenRequests : p = PositionBeforeCreate(r)
    /\ posOp = "none"
    /\ \E r \in TradeRequests : t = NewTrade(r)
    /\ tradeRow = Nil
    /\ tradeOp = "none"
    /\ \E s \in TokenSnapshots, r \in PresetRiskScores :
           tok = [NewToken(s) EXCEPT !.RiskScore = r]
    /\ tokOp = "none"
    /\ user = UserInit
    /\ AuxIdle
    /\ now = 0

----------------------------------------------------------------------------
(* Actions *)

tradeVars == <<t, tradeRow, tradeOp>>
posVars == <<p, posOp>>
tokVars == <<tok, tokOp>>
auxVars == <<result, calls>>

\* time passes between two calls
Tick ==
    /\ now < MaxTime
    /\ now' = now + 1
    /\ UNCHANGED <<posVars, tradeVars, tokVars, auxVars, user>>

UpdateCurrentPrice ==
    \E price \in Prices :
        /\ p' = UpdateCurrentPriceOf(p, price, now)
        /\ posOp' = "UpdateCurrentPrice"
        /\ UNCHANGED <<tradeVars, tokVars, auxVars, user, now>>

UpdateTrailingStop ==
    /\ p' = UpdateTrailingStopOf(p)
    /\ posOp' = "UpdateTrailingStop"
    /\ UNCHANGED <<tradeVars, tokVars, auxVars, user, now>>

AddPartialExit ==
    \E exit \in ExitInputs :
        /\ Len(p.PartialExits) < MaxExits
        /\ p' = AddPartialExitOf(p, exit)
        /\ posOp' = "AddPartialExit"
        /\ UNCHANGED <<tradeVars, tokVars, auxVars, user, now>>

AddDCAEntry ==
    \E entry \in DCAInputs :
        /\ Len(p.DCAEntries) < MaxDCA
        /\ p' = AddDCAEntryOf(p, entry)
        /\ posOp' = "AddDCAEntry"
        /\ UNCHANGED <<tradeVars, tokVars, auxVars, user, now>>

AddAdjustment ==
    \E adjustment \in AdjustmentInputs :
        /\ Len(p.Adjustments) < MaxAdjustments
        /\ p' = AddAdjustmentOf(p, adjustment)
        /\ posOp' = "AddAdjustment"
        /\ UNCHANGED <<tradeVars, tokVars, auxVars, user, now>>

\* the precondition of a partial exit: 0 < quantity <= current_quantity
ExitInRange(q, exit) == 0 < exit.Quantity /\ exit.Quantity <= q.CurrentQuantity

\* the precondition of a DCA entry: quantity > 0 and price > 0
DCAInRange(entry) == entry.Quantity > 0 /\ entry.Price > 0

\* AddPartialExit called by a caller that checked the quantity first
AddPartialExitInRange ==
    \E exit \in ExitInputs :
        /\ ExitInRange(p, exit)
        /\ Len(p.PartialExits) < MaxExits
        /\ p' = AddPartialExitOf(p, exit)
        /\ posOp' = "AddPartialExit"
        /\ UNCHANGED <<tradeVars, tokVars, auxVars, user, now>>

\* AddDCAEntry called by a caller that checked quantity and price first
AddDCAEntryInRange ==
    \E entry \in DCAInputs :
        /\ DCAInRange(entry)
        /\ Len(p.DCAEntries) < MaxDCA
        /\ p' = AddDCAEntryOf(p, entry)
        /\ posOp' = "AddDCAEntry"
        /\ UNCHANGED <<tradeVars, tokVars, auxVars, user, now>>

\* the caller asks Position.ShouldTriggerStopLoss()
CallShouldTriggerStopLoss ==
    /\ posOp' = IF ShouldTriggerStopLoss(p)
                THEN "ShouldTriggerStopLoss:true" ELSE "ShouldTriggerStopLoss:false"
    /\ UNCHANGED <<p, tradeVars, tokVars, auxVars, user, now>>

\* the caller asks Position.ShouldTriggerTakeProfit()
CallShouldTriggerTakeProfit ==
    /\ posOp' = IF ShouldTriggerTakeProfit(p)
                THEN "ShouldTriggerTakeProfit:true" ELSE "ShouldTriggerTakeProfit:false"
    /\ UNCHANGED <<p, tradeVars, tokVars, auxVars, user, now>>

\* the caller asks Position.ShouldTriggerTrailingStop()
CallShouldTriggerTrailingStop ==
    /\ posOp' = IF ShouldTriggerTrailingStop(p)
                THEN "ShouldTriggerTrailingStop:true"
                ELSE "ShouldTriggerTrailingStop:false"
    /\ UNCHANGED <<p, tradeVars, tokVars, auxVars, user, now>>

\* the caller asks shouldTrigger(position); the answer is the reported reason
CallShouldTrigger ==
    /\ posOp' = shouldTrigger(p)
    /\ UNCHANGED <<p, tradeVars, tokVars, auxVars, user, now>>

\* PositionRepository.Update: the BeforeUpdate hook, the write, the AfterUpdate hook
UpdatePosition ==
    /\ p' = PositionBeforeUpdate(p, now)
    /\ user' = PositionAfterUpdate(user, p')
    /\ user'.TotalVolume <= MaxStatVolume
    /\ posOp' = "Update"
    /\ UNCHANGED <<tradeVars, tokVars, auxVars, now>>

\* PositionRepository.Close(positionID, exitPrice, exitReason): loads the row (the
\* struct is the row last written), refuses a position that is not open or partial,
\* otherwise stamps the exit and saves (BeforeUpdate hook, write, AfterUpdate hook)
ClosePosition ==
    \E exitPrice \in Prices :
        /\ posOp \in {"none", "Update", "Close", "Close:InvalidStateTransition"}
        /\ IF p.Status \in {"open", "partial"}
           THEN /\ p' = PositionBeforeUpdate(CloseOf(p, exitPrice, now), now)
                /\ user' = PositionAfterUpdate(user, p')
                /\ user'.TotalVolume <= MaxStatVolume
                /\ posOp' = "Close"
           ELSE /\ posOp' = "Close:InvalidStateTransition"
                /\ UNCHANGED <<p, user>>
        /\ UNCHANGED <<tradeVars, tokVars, auxVars, now>>

\* TradeRepository.Create: the BeforeCreate hook, the insert, the AfterCreate hook
CreateTrade ==
    /\ IsNil(tradeRow)
    /\ t' = TradeBeforeCreate(t, now)
    /\ tradeRow' = Some(t')
    /\ user' = TradeUserStats(user, t')
    /\ tradeOp' = "Create"
    /\ UNCHANGED <<posVars, tokVars, auxVars, now>>

\* what TradeRepository.Update does to the struct x the caller hands it
SaveTrade(x) ==
    /\ t' = TradeBeforeUpdate(x, now)
    /\ tradeRow' = Some(t')
    /\ user' = TradeUserStats(user, t')
    /\ user'.TotalTrades <= MaxStatTrades
    /\ user'.TotalVolume <= MaxStatVolume

\* TradeService.UpdateTradeStatus / TradeRepository.Update: the caller assigns the
\* status, the fees and the fill on the loaded trade and saves it
UpdateTrade ==
    \E s \in TradeStatuses, f \in FeeInputs, e \in FillInputs :
        /\ ~IsNil(tradeRow)
        /\ SaveTrade([t EXCEPT !.Status = s,
                               !.TradingFee = f[1], !.PlatformFee = f[2], !.GasFee = f[3],
                               !.ExecutedAmount = e[1], !.ExecutedPrice = e[2]])
        /\ tradeOp' = "Update"
        /\ UNCHANGED <<posVars, tokVars, auxVars, now>>

\* the caller asks Trade.CanRetry()
CallCanRetry ==
    /\ tradeOp' = IF CanRetry(t) THEN "CanRetry:true" ELSE "CanRetry:false"
    /\ UNCHANGED <<posVars, tokVars, auxVars, t, tradeRow, user, now>>

\* TradeService.RetryTrade: increments retry_count, resets status to pending, saves
RetryTrade ==
    /\ ~IsNil(tradeRow)
    /\ CanRetry(t)
    /\ SaveTrade([t EXCEPT !.RetryCount = @ + 1, !.Status = "pending"])
    /\ tradeOp' = "RetryTrade"
    /\ UNCHANGED <<posVars, tokVars, auxVars, now>>

\* the caller records the fill price on the trade in memory
FillTrade ==
    \E price \in ExecutedPrices :
        /\ t' = [t EXCEPT !.ExecutedPrice = price]
        /\ tradeOp' = "Fill"
        /\ UNCHANGED <<posVars, tokVars, auxVars, tradeRow, user, now>>

\* the caller asks Trade.CalculateActualSlippage()
CallCalculateActualSlippage ==
    /\ result' = Some(CalculateActualSlippage(t))
    /\ tradeOp' = "CalculateActualSlippage"
    /\ UNCHANGED <<posVars, tokVars, calls, t, tradeRow, user, now>>

\* TokenRepository.Create: the BeforeCreate hook and the insert
CreateToken ==
    /\ tokOp = "none"
    /\ tok' = TokenBeforeCreate(tok, now)
    /\ tokOp' = "Create"
    /\ UNCHANGED <<posVars, tradeVars, auxVars, user, now>>

\* TokenRepository.Update: the caller assigns the honeypot finding of the last
\* security check on the loaded token and saves it (the BeforeUpdate hook, the write)
UpdateToken ==
    \E honeypot \in BOOLEAN :
        /\ tokOp # "none"
        /\ tok' = TokenBeforeUpdate([tok EXCEPT !.HoneypotRisk = honeypot], now)
        /\ tokOp' = "Update"
        /\ UNCHANGED <<posVars, tradeVars, auxVars, user, now>>

\* caller c starts the save of a completed entity: the Before hook and the write
\* of the entity's row run in c's transaction, which sees the users row as it is
BeginCompletion(c) ==
    \E e \in Completions :
        /\ calls[c].Op = "idle"
        /\ calls' = [calls EXCEPT ![c] =
                        [Op |-> "complete", Step |-> 1, Arg |-> e, Seen |-> user]]
        /\ UNCHANGED <<posVars, tradeVars, tokVars, user, result, now>>

\* the After hook of caller c's save executes its UPDATE users statement
CommitStats(c) ==
    /\ calls[c].Op = "complete"
    /\ calls[c].Step = 1
    /\ user' = StatsStatement(user, calls[c].Seen, calls[c].Arg)
    /\ calls' = [calls EXCEPT ![c].Step = 2]
    /\ UNCHANGED <<posVars, tradeVars, tokVars, result, now>>

\* caller c enters UpdateCurrentPrice(price) on the shared position
BeginUpdateCurrentPrice(c) ==
    \E price \in Prices :
        /\ calls[c].Op = "idle"
        /\ calls' = [calls EXCEPT ![c] =
                        [Op |-> "UpdateCurrentPrice", Step |-> 1, Arg |-> price,
                         Seen |-> Nil]]
        /\ posOp' = "UpdateCurrentPrice"
        /\ UNCHANGED <<p, tradeVars, tokVars, user, result, now>>

\* caller c, having checked the quantity, enters AddPartialExit(exit) on the
\* shared position
BeginAddPartialExit(c) ==
    \E exit \in ExitInputs :
        /\ calls[c].Op = "idle"
        /\ ExitInRange(p, exit)
        /\ calls' = [calls EXCEPT ![c] =
                        [Op |-> "AddPartialExit", Step |-> 1, Arg |-> exit,
                         Seen |-> Nil]]
        /\ posOp' = "AddPartialExit"
        /\ UNCHANGED <<p, tradeVars, tokVars, user, result, now>>

\* caller c runs the next statement of its method
RunStatement(c) ==
    /\ calls[c].Op \in {"UpdateCurrentPrice", "AddPartialExit"}
    /\ calls[c].Step <= LastStatement
    /\ p' = CallStatement(p, calls[c], calls[c].Step, now)
    /\ calls' = [calls EXCEPT ![c].Step = @ + 1]
    /\ UNCHANGED <<posOp, tradeVars, tokVars, user, result, now>>

\* the ledger operations: price ticks, partial exits, DCA adds
NextLedger ==
    \/ UpdateCurrentPrice
    \/ AddPartialExit
    \/ AddDCAEntry

\* the ledger operations, every exit and DCA entry within its precondition
NextLedgerInRange ==
    \/ UpdateCurrentPrice
    \/ AddPartialExitInRange
    \/ AddDCAEntryInRange

\* the protective-order operations: price ticks, trailing stop, its adjustments
NextTrailing ==
    \/ UpdateCurrentPrice
    \/ UpdateTrailingStop
    \/ AddAdjustment
    \/ AddPartialExit

\* the protective-order checks on a position that prices and partial exits move
NextTriggers ==
    \/ UpdateCurrentPrice
    \/ UpdateTrailingStop
    \/ AddPartialExitInRange
    \/ CallShouldTriggerStopLoss
    \/ CallShouldTriggerTakeProfit
    \/ CallShouldTriggerTrailingStop
    \/ CallShouldTrigger

\* the token operations
NextToken ==
    \/ CreateToken
    \/ UpdateToken
    \/ Tick

\* the price feed on a position that in-range exits and DCA adds change, while
\* time passes
NextPriceFeed ==
    \/ UpdateCurrentPrice
    \/ AddPartialExitInRange
    \/ AddDCAEntryInRange
    \/ Tick

\* the ledger operations with the saves and the close of the position
NextClose ==
    \/ UpdateCurrentPrice
    \/ AddPartialExitInRange
    \/ AddDCAEntryInRange
    \/ UpdatePosition
    \/ ClosePosition
    \/ Tick

\* completions of several entities of one account, interleaved
NextStats == \E c \in Callers : BeginCompletion(c) \/ CommitStats(c)

\* two callers, one method call each, on the same position
NextRace ==
    \E c \in Callers :
        \/ BeginUpdateCurrentPrice(c)
        \/ BeginAddPartialExit(c)
        \/ RunStatement(c)

NextPosition ==
    \/ UpdateCurrentPrice
    \/ UpdateTrailingStop
    \/ AddPartialExit
    \/ AddDCAEntry
    \/ AddAdjustment
    \/ UpdatePosition
    \/ Tick

NextTrade ==
    \/ CreateTrade
    \/ UpdateTrade
    \/ CallCanRetry
    \/ RetryTrade
    \/ Tick

\* fills and slippage queries on a trade in memory
NextSlippage ==
    \/ FillTrade
    \/ CallCalculateActualSlippage

Next == NextPosition \/ NextTrade \/ NextTriggers \/ NextToken \/ NextClose
        \/ NextStats \/ NextRace \/ NextSlippage

SpecLedger == InitLedger /\ [][NextLedger]_vars
SpecLedgerInRange == InitLedger /\ [][NextLedgerInRange]_vars
SpecTrailing == InitPosition /\ [][NextTrailing]_vars
SpecPosition == InitPosition /\ [][NextPosition]_vars
SpecTrade == InitTrade /\ [][NextTrade]_vars
SpecTriggers == InitTriggers /\ [][NextTriggers]_vars
SpecPriceFeed == InitLedger /\ [][NextPriceFeed]_vars
SpecClose == InitLedger /\ [][NextClose]_vars
SpecToken == InitToken /\ [][NextToken]_vars
SpecStats == InitIdle /\ [][NextStats]_vars
SpecRace == InitLedger /\ [][NextRace]_vars
SpecSlippage == InitSlippage /\ [][NextSlippage]_vars
Spec == Init /\ [][Next]_vars

----------------------------------------------------------------------------
(* Claims *)

LastOf(s) == s[Len(s)]

\* the step appends a partial exit / a DCA entry (only AddPartialExit / AddDCAEntry do)
ExitAppended == Len(p'.PartialExits) = Len(p.PartialExits) + 1
DCAAppended == Len(p'.DCAEntries) = Len(p.DCAEntries) + 1

\* C1: while the position is open or partial, the quantities of the recorded
\* partial exits plus current_quantity equal entry_quantity.
C1_QuantityConservation ==
    p.Status \in {"open", "partial"} =>
        SumOver(p.PartialExits, "Quantity") + p.CurrentQuantity = p.EntryQuantity

\* C2: current_quantity is zero if and only if the status is closed.
C2_ZeroIffClosed == (p.CurrentQuantity = 0) <=> (p.Status = "closed")

\* C3: once set, the trailing stop price of a long position never decreases and
\* that of a short position never increases, whatever the step (price update,
\* UpdateTrailingStop, adjustment of the percentage, partial exit).
C3_TrailingStopRatchet ==
    [][ ~IsNil(p.TrailingStopPrice) =>
          /\ ~IsNil(p'.TrailingStopPrice)
          /\ p.Side = "long" => RLe(Val(p.TrailingStopPrice), Val(p'.TrailingStopPrice))
          /\ p.Side = "short" => RLe(Val(p'.TrailingStopPrice), Val(p.TrailingStopPrice))
      ]_vars

\* C3 witness: UpdateTrailingStop ran on a long position after the price fell, and
\* the stop stayed above the level the current price alone would give.
C3_Witness ==
    /\ posOp = "UpdateTrailingStop"
    /\ p.Side = "long"
    /\ ~IsNil(p.TrailingStop)
    /\ ~IsNil(p.TrailingStopPrice)
    /\ p.CurrentPrice = 85
    /\ RGt(Val(p.TrailingStopPrice),
           Rat(p.CurrentPrice * (100 - Val(p.TrailingStop)), 100))

\* C4: AddPartialExit with a quantity <= 0 or above current_quantity appends no
\* exit (and changes nothing): no step records such an exit.
C4_InvalidExitRejected ==
    [][ ~( /\ ExitAppended
           /\ \/ LastOf(p'.PartialExits).Quantity <= 0
              \/ LastOf(p'.PartialExits).Quantity > p.CurrentQuantity )
      ]_vars

\* C5: an AddPartialExit with 0 < quantity <= current_quantity appends the exit,
\* lowers current_quantity by the exit's quantity, adds the exit's PnL to realized
\* PnL, and sets the status to closed (current quantity and value zero) exactly when
\* nothing is left, otherwise to partial.
C5_ValidPartialExit ==
    [][ ( /\ ExitAppended
          /\ LastOf(p'.PartialExits).Quantity > 0
          /\ LastOf(p'.PartialExits).Quantity <= p.CurrentQuantity )
        => LET exit == LastOf(p'.PartialExits)
           IN  /\ p'.PartialExits = Append(p.PartialExits, exit)
               /\ p'.CurrentQuantity = p.CurrentQuantity - exit.Quantity
               /\ p'.RealizedPnL = p.RealizedPnL + exit.PnL
               /\ (p'.Status = "closed") <=> (p.CurrentQuantity - exit.Quantity = 0)
               /\ p'.Status = "closed" => p'.CurrentQuantity = 0 /\ p'.CurrentValue = 0
               /\ p'.Status # "closed" => p'.Status = "partial"
      ]_vars

\* C5 witness: exiting 4 from a current quantity of 10 left 6, status partial.
C5_Witness ==
    /\ posOp = "AddPartialExit"
    /\ Len(p.PartialExits) = 1
    /\ p.PartialExits[1].Quantity = 4
    /\ p.EntryQuantity = 10
    /\ p.CurrentQuantity = 6
    /\ p.RealizedPnL = 40
    /\ p.Status = "partial"

\* C6: AddDCAEntry raises entry_quantity and entry_value by the entry's quantity and
\* value, sets entry_price to new entry_value / new entry_quantity, and sets
\* current_quantity to the new entry_quantity.
C6_DCAWeightedAverage ==
    [][ DCAAppended =>
          LET entry == LastOf(p'.DCAEntries)
          IN  /\ p'.EntryQuantity = p.EntryQuantity + entry.Quantity
              /\ p'.EntryValue = p.EntryValue + entry.Value
              /\ p'.EntryPrice[1] * (p.EntryQuantity + entry.Quantity)
                   = (p.EntryValue + entry.Value) * p'.EntryPrice[2]
              /\ p'.CurrentQuantity = p'.EntryQuantity
      ]_vars

\* C6 witness: 5 @ 80 added to 10 @ 100 gave entry_quantity 15 and
\* entry_price 1400/15 = 280/3.
C6_Witness ==
    /\ posOp = "AddDCAEntry"
    /\ p.DCAEntries = << [Quantity |-> 5, Price |-> 80, Value |-> 400, Fees |-> 1] >>
    /\ p.EntryQuantity = 15
    /\ p.EntryValue = 1400
    /\ p.EntryPrice = <<280, 3>>
    /\ p.CurrentQuantity = 15

\* C7: AddDCAEntry with quantity <= 0 or price <= 0 is rejected: no step records
\* such an entry.
C7_InvalidDCARejected ==
    [][ ~( /\ DCAAppended
           /\ \/ LastOf(p'.DCAEntries).Quantity <= 0
              \/ LastOf(p'.DCAEntries).Price <= 0 )
      ]_vars

\* C8: once the trade is created, after every persisted update its total_fees
\* equal trading_fee + platform_fee + gas_fee.
C8_TradeFeeInvariant ==
    ~IsNil(tradeRow) =>
        /\ Val(tradeRow).TotalFees
             = Val(tradeRow).TradingFee + Val(tradeRow).PlatformFee + Val(tradeRow).GasFee
        /\ t.TotalFees = t.TradingFee + t.PlatformFee + t.GasFee

\* C8 witness: an update that changed the fees to (2, 0, 1) and confirmed the trade.
C8_Witness ==
    /\ tradeOp = "Update"
    /\ ~IsNil(tradeRow)
    /\ Val(tradeRow).Status = "confirmed"
    /\ Val(tradeRow).TradingFee = 2
    /\ Val(tradeRow).GasFee = 1
    /\ Val(tradeRow).TotalFees = 3

\* C9: a persisted trade in a terminal status (confirmed, failed, cancelled,
\* expired) keeps that status through every status update.
C9_TerminalStatusIsFinal ==
    [][ ( /\ ~IsNil(tradeRow)
          /\ IsCompleted(Val(tradeRow))
          /\ tradeOp' = "Update" )
        => Val(tradeRow').Status = Val(tradeRow).Status
      ]_vars

\* C10: CanRetry answers true exactly when the status is failed and
\* retry_count < max_retries.
C10_CanRetryExact ==
    tradeOp \in {"CanRetry:true", "CanRetry:false"} =>
        ( (tradeOp = "CanRetry:true")
          <=> (t.Status = "failed" /\ t.RetryCount < t.MaxRetries) )

\* C10 witness: a failed trade with retry_count 3 of max_retries 3 was refused.
C10_Witness ==
    /\ tradeOp = "CanRetry:false"
    /\ t.Status = "failed"
    /\ t.RetryCount = 3
    /\ t.MaxRetries = 3

\* C11: the protective-order checks are side-aware and gated on the status.  The
\* stop-loss check answers true exactly when the status is open, a stop-loss is set
\* and the price is <= it on a long position, >= it on a short one; the take-profit
\* check answers true exactly when the status is open, a take-profit is set and the
\* price is >= it on a long position, <= it on a short one; the trailing-stop check
\* never answers true unless the status is open and a trailing stop price is set.
C11_TriggersSideAware ==
    /\ posOp \in {"ShouldTriggerStopLoss:true", "ShouldTriggerStopLoss:false"} =>
         ( (posOp = "ShouldTriggerStopLoss:true")
           <=> /\ p.Status = "open"
               /\ ~IsNil(p.StopLoss)
               /\ \/ p.Side = "long" /\ p.CurrentPrice <= Val(p.StopLoss)
                  \/ p.Side = "short" /\ p.CurrentPrice >= Val(p.StopLoss) )
    /\ posOp \in {"ShouldTriggerTakeProfit:true", "ShouldTriggerTakeProfit:false"} =>
         ( (posOp = "ShouldTriggerTakeProfit:true")
           <=> /\ p.Status = "open"
               /\ ~IsNil(p.TakeProfit)
               /\ \/ p.Side = "long" /\ p.CurrentPrice >= Val(p.TakeProfit)
                  \/ p.Side = "short" /\ p.CurrentPrice <= Val(p.TakeProfit) )
    /\ posOp = "ShouldTriggerTrailingStop:true" =>
         p.Status = "open" /\ ~IsNil(p.TrailingStopPrice)

\* C11 witness: after a partial exit left the position partial, the take-profit
\* check answered false on a short position whose price is at its take-profit.
C11_Witness ==
    /\ posOp = "ShouldTriggerTakeProfit:false"
    /\ p.Status = "partial"
    /\ p.Side = "short"
    /\ p.TakeProfit = Some(90)
    /\ p.CurrentPrice = 85

C13_RiskScoreBounded ==
    /\ tokOp # "none" => 0 <= tok.RiskScore /\ tok.RiskScore <= 100
    /\ 0 <= calculateRiskScore(tok, now).RiskScore
    /\ calculateRiskScore(tok, now).RiskScore <= 100

\* C13 witness: an update stored 10.0 for a token whose terms sum to more than 10.
C13_Witness ==
    /\ tokOp = "Update"
    /\ tok.HoneypotRisk
    /\ ~tok.LiquidityLocked
    /\ tok.AuditStatus = "failed"
    /\ rawRiskScore(tok, Val(tok.LastSeenAt)) > 100
    /\ tok.RiskScore = 100

\* the position of a risk level in the order very_low < ... < extreme
LevelRank(level) == CHOOSE i \in 1..Len(RiskLevels) : RiskLevels[i] = level

\* the band updateRiskLevel assigns to score s (in tenths)
LevelOfScore(s) == updateRiskLevel([tok EXCEPT !.RiskScore = s]).RiskLevel

\* scores on, just below and just above every band edge, and both ends
BandProbeScores ==
    {0, 19, 20, 21, 39, 40, 41, 59, 60, 61, 79, 80, 81, 89, 90, 91, 100, 120}

\* C14: the score-to-level mapping is monotonically non-decreasing over
\* very_low < low < medium < high < very_high < extreme, and every score maps to
\* exactly one of the six bands: the level an update stores is one of the six, it
\* is the band of the stored score, no lower score maps to a higher level and no
\* higher score to a lower one.
C14_LevelMonotone ==
    tokOp = "Update" =>
        /\ \E i \in 1..Len(RiskLevels) : tok.RiskLevel = RiskLevels[i]
        /\ \A s \in BandProbeScores :
             /\ \E i \in 1..Len(RiskLevels) : LevelOfScore(s) = RiskLevels[i]
             /\ s <= tok.RiskScore =>
                  LevelRank(LevelOfScore(s)) <= LevelRank(tok.RiskLevel)
             /\ s >= tok.RiskScore =>
                  LevelRank(LevelOfScore(s)) >= LevelRank(tok.RiskLevel)

\* C14 witness: an update stored the score 9.0, the upper edge of very_high.
C14_Witness ==
    /\ tokOp = "Update"
    /\ tok.RiskScore = 90
    /\ tok.RiskLevel = "very_high"

\* C15: risk scoring is deterministic and does not depend on when the evaluation
\* runs: an update that re-evaluates a token whose risk inputs are those of the
\* previous evaluation stores the same score and the same level.
C15_ScoreIndependentOfClock ==
    [][ ( /\ tokOp = "Update"
          /\ tokOp' = "Update"
          /\ SnapshotOf(tok') = SnapshotOf(tok) )
        => /\ tok'.RiskScore = tok.RiskScore
           /\ tok'.RiskLevel = tok.RiskLevel
      ]_vars

\* C16: after creation and after every persisted update, the stored risk_score is
\* what the scorer computes from the token's signals (at the clock reading of that
\* write) and the stored risk_level is the band of that score.
C16_StoredRiskIsComputed ==
    tokOp \in {"Create", "Update"} =>
        /\ tok.RiskScore = calculateRiskScore(tok, Val(tok.LastSeenAt)).RiskScore
        /\ tok.RiskLevel = updateRiskLevel(tok).RiskLevel

C18_UnrealizedPnLAfterPrice ==
    ( /\ posOp = "UpdateCurrentPrice"
      /\ p.Status \in {"open", "partial"} )
    => p.UnrealizedPnL
         = RMul(RSub(RInt(p.CurrentPrice), p.EntryPrice), RInt(p.CurrentQuantity))

C20_NoPartialMutation ==
    [][ ( \/ posOp' = "AddPartialExit" /\ ExitAppended
             /\ ~ExitInRange(p, LastOf(p'.PartialExits))
          \/ posOp' = "AddDCAEntry" /\ DCAAppended
             /\ ~DCAInRange(LastOf(p'.DCAEntries)) )
        => p' = p
      ]_vars

\* C21: the account statistics change only in a step in which a trade or a
\* position enters a terminal state (the trade row was absent or not completed and
\* is completed after the step; the position was not closed and is closed after
\* it); every other step, a save of an already terminal entity included, leaves
\* them unchanged.
C21_StatsOnlyOnCompletion ==
    [][ user' # user =>
          \/ /\ IsNil(tradeRow) \/ ~IsCompleted(Val(tradeRow))
             /\ ~IsNil(tradeRow')
             /\ IsCompleted(Val(tradeRow'))
          \/ p.Status # "closed" /\ p'.Status = "closed"
      ]_vars

\* the contribution of caller c's completion, once its statement has run
Counted(u, c) ==
    IF calls[c].Op = "complete" /\ calls[c].Step = 2
    THEN HookStats(u, calls[c].Arg) ELSE u

\* C22: the statistics updates are atomic increments: whatever the interleaving
\* of the callers' saves, the users row equals the initial row plus the
\* contribution of every completion whose statement has run: no update is lost.
C22_NoLostUpdate == user = Counted(Counted(UserInit, 1), 2)

\* C22 witness: both callers began their saves before either statement ran (each
\* saw the initial row), a confirmed trade and a closed position with a loss;
\* both contributions are in the row.
C22_Witness ==
    /\ \A c \in Callers : calls[c].Step = 2 /\ calls[c].Seen = UserInit
    /\ calls[1].Arg.Kind = "trade"
    /\ calls[1].Arg.Entity.Status = "confirmed"
    /\ calls[2].Arg.Kind = "position"
    /\ user = [TotalTrades |-> 1, SuccessfulTrades |-> 1, TotalVolume |-> 1100,
               TotalProfit |-> 0, TotalLoss |-> 100]

\* the position as it was created, before either caller touched it
CreatedPosition == PositionBeforeCreate([DefaultOpenRequest EXCEPT !.Side = p.Side])

\* both callers have run their method to its last statement
BothReturned ==
    \A c \in Callers :
        /\ calls[c].Op \in {"UpdateCurrentPrice", "AddPartialExit"}
        /\ calls[c].Step > LastStatement

\* C23: the mutations of one position are serialized: when two callers have each
\* run one operation on the same position, the position equals the result of
\* running the two operations one after the other, in one of the two orders.
C23_Serializable ==
    BothReturned =>
        \/ p = CallAlone(CallAlone(CreatedPosition, calls[1], now), calls[2], now)
        \/ p = CallAlone(CallAlone(CreatedPosition, calls[2], now), calls[1], now)


\* C24: a save of a trade stamps executed_at (and execution_time = executed_at -
\* requested_at) the first time it sees the status executed, and confirmed_at the
\* first time it sees the status confirmed, with confirmation_time = confirmed_at -
\* executed_at only when executed_at is present; a stamp once set is never
\* overwritten, and nothing else sets a stamp.
C24_StampedOnce ==
    [][ /\ IF ~IsNil(t.ExecutedAt)
           THEN t'.ExecutedAt = t.ExecutedAt /\ t'.ExecutionTime = t.ExecutionTime
           ELSE IF tradeOp' \in {"Update", "RetryTrade"} /\ t'.Status = "executed"
           THEN /\ t'.ExecutedAt = Some(now)
                /\ t'.ExecutionTime = now - Val(t'.RequestedAt)
           ELSE IsNil(t'.ExecutedAt) /\ t'.ExecutionTime = t.ExecutionTime
        /\ IF ~IsNil(t.ConfirmedAt)
           THEN t'.ConfirmedAt = t.ConfirmedAt /\ t'.ConfirmationTime = t.ConfirmationTime
           ELSE IF tradeOp' \in {"Update", "RetryTrade"} /\ t'.Status = "confirmed"
           THEN /\ t'.ConfirmedAt = Some(now)
                /\ t'.ConfirmationTime =
                      IF ~IsNil(t.ExecutedAt) THEN now - Val(t.ExecutedAt)
                      ELSE t.ConfirmationTime
           ELSE IsNil(t'.ConfirmedAt) /\ t'.ConfirmationTime = t.ConfirmationTime
      ]_vars

\* a trade executed at 0 and confirmed at 1, saved again since: the execution stamp
\* is still the first one and the confirmation time was measured from it
C24_Witness ==
    /\ t.ExecutedAt = Some(0)
    /\ t.ConfirmedAt = Some(1)
    /\ t.ConfirmationTime = 1
    /\ t.Status = "executed"
    /\ tradeOp = "Update"
    /\ now = 1


\* (executed - requested) / requested * 100, the slippage of a buy
BuySlippage(x) == RMul(Rat(x.ExecutedPrice - x.Price, x.Price), RInt(100))

\* C25 as stated: the slippage returned is (executed - requested) / requested * 100
\* for a buy, its negation for a sell, and 0 when the requested price is 0.
C25_Slippage ==
    tradeOp = "CalculateActualSlippage" =>
        Val(result) = IF t.Price = 0 THEN RInt(0)
                      ELSE IF t.Side = "buy" THEN BuySlippage(t)
                      ELSE RSub(RInt(0), BuySlippage(t))

\* C25, amended: the slippage returned is (executed - requested) / requested * 100
\* for a buy, its negation for a sell, and 0 when the requested price or the
\* executed price is 0.
C25_SlippageWhenFilled ==
    tradeOp = "CalculateActualSlippage" =>
        Val(result) = IF t.Price = 0 \/ t.ExecutedPrice = 0 THEN RInt(0)
                      ELSE IF t.Side = "buy" THEN BuySlippage(t)
                      ELSE RSub(RInt(0), BuySlippage(t))

\* a sell requested at 10 and filled at 9: slippage +10
C25_Witness ==
    /\ tradeOp = "CalculateActualSlippage"
    /\ t.Side = "sell"
    /\ t.Price = 10
    /\ t.ExecutedPrice = 9
    /\ result = Some(<<10, 1>>)


\* C26: max_drawdown never decreases over price updates, partial exits and DCA
\* adds, and after each price update it is at least
\* (highest_value - current_value) / highest_value * 100 when highest_value > 0.
C26_DrawdownMonotone ==
    [][ /\ RLe(p.MaxDrawdown, p'.MaxDrawdown)
        /\ (posOp' = "UpdateCurrentPrice" /\ p'.HighestValue > 0) =>
               RLe(Rat((p'.HighestValue - p'.CurrentValue) * 100, p'.HighestValue),
                   p'.MaxDrawdown)
      ]_vars

\* the price fell to 85 and recovered: the price update left the position at its
\* highest value, and max_drawdown still holds the 15 % of the fall
C26_Witness ==
    /\ posOp = "UpdateCurrentPrice"
    /\ p.CurrentValue = p.HighestValue
    /\ p.HighestValue > 0
    /\ p.MaxDrawdown = <<15, 1>>


\* the field of the position an adjustment of the given type targets
TargetedField(type) ==
    CASE type = "stop_loss" -> "StopLoss"
      [] type = "take_profit" -> "TakeProfit"
      [] type = "trailing_stop" -> "TrailingStop"

\* C27: an adjustment appends exactly one adjustment record whose old value is
\* the value the targeted field had before the call, sets the targeted field
\* (stop-loss, take-profit or trailing-stop percentage) to the new value and leaves
\* every other field unchanged, the trailing stop price included.
C27_AdjustmentFrame ==
    [][ posOp' = "AddAdjustment" =>
          /\ Len(p'.Adjustments) = Len(p.Adjustments) + 1
          /\ LET adjustment == LastOf(p'.Adjustments)
                 field == TargetedField(adjustment.Type)
             IN  /\ p'.Adjustments = Append(p.Adjustments, adjustment)
                 /\ adjustment.OldValue = p[field]
                 /\ p'[field] = Some(adjustment.NewValue)
                 /\ \A f \in DOMAIN p \ {"Adjustments", field} : p'[f] = p[f]
      ]_vars


\* C28: in every state reached by price updates, partial exits and DCA adds,
\* current_value equals current_price * current_quantity.
C28_CurrentValueDerived == p.CurrentValue = p.CurrentPrice * p.CurrentQuantity


\* C29: total_fees counts every fee exactly once: after DCA adds and partial exits
\* followed by a persisted update, total_fees equals the original entry fee plus
\* the DCA entries' fees plus the partial exits' fees plus the exit fee, if any.
C29_FeesCountedOnce ==
    posOp = "Update" =>
        p.TotalFees = DefaultOpenRequest.Fees
                      + SumOver(p.DCAEntries, "Fees")
                      + SumOver(p.PartialExits, "Fees")
                      + (IF IsNil(p.ExitFees) THEN 0 ELSE Val(p.ExitFees))


\* the realized PnL the operation of the step (a price update, a persisted update
\* or a close) gives when run on the position q
RealizedAfterStep(q) ==
    CASE posOp' = "UpdateCurrentPrice" ->
             UpdateCurrentPriceOf(q, p'.CurrentPrice, now).RealizedPnL
      [] posOp' = "Update" ->
             PositionBeforeUpdate(q, now).RealizedPnL
      [] posOp' = "Close" ->
             PositionBeforeUpdate(CloseOf(q, Val(p'.ExitPrice), now), now).RealizedPnL

\* C30: realized PnL accumulated from partial exits is never lost: while the
\* position carries the (non-zero) PnL of its partial exits, a price update, a
\* persisted update or a close produces a realized PnL that includes it, that is,
\* not the value the same operation produces without the accumulated PnL.
C30_PartialPnLKept ==
    [][ ( /\ posOp' \in {"UpdateCurrentPrice", "Update", "Close"}
          /\ Len(p.PartialExits) > 0
          /\ p.RealizedPnL = SumOver(p.PartialExits, "PnL")
          /\ p.RealizedPnL # 0 )
        => /\ p'.RealizedPnL = RealizedAfterStep(p)
           /\ p'.RealizedPnL # RealizedAfterStep([p EXCEPT !.RealizedPnL = 0])
      ]_vars

=============================================================================
